---- MODULE Spec2Model ----
(***************************************************************************)
(* State-machine model of the WaitingList page component                   *)
(* (src/src/pages/WaitingList.tsx): its React state, the two mount-time    *)
(* loads, the three handlers (handleTeachSkill, handleAddToWaitingList,    *)
(* handleAddSkill) cut at their await points, and the remote collections   *)
(* they read and write.                                                    *)
(***************************************************************************)
EXTENDS Integers, Sequences, FiniteSets, TLC

(***************************************************************************)
(* Bounds                                                                  *)
(***************************************************************************)
\* Number of handler invocations (clicks / submits) in one behaviour.
MaxOps == 3

(***************************************************************************)
(* Strings are sequences of characters, so that trim() and toLowerCase()   *)
(* are computed and not assumed.                                           *)
(***************************************************************************)
ToLowerChar(c) == IF c = "A" THEN "a" ELSE IF c = "B" THEN "b" ELSE c

\* String.prototype.toLowerCase
toLowerCase(s) == [i \in 1..Len(s) |-> ToLowerChar(s[i])]

RECURSIVE trimStart(_)
trimStart(s) == IF s # <<>> /\ Head(s) = " " THEN trimStart(Tail(s)) ELSE s

RECURSIVE trimEnd(_)
trimEnd(s) ==
    IF s # <<>> /\ s[Len(s)] = " " THEN trimEnd(SubSeq(s, 1, Len(s) - 1)) ELSE s

\* String.prototype.trim
trim(s) == trimEnd(trimStart(s))

\* What the user can type into the skill-name inputs.
NameInputs == { <<>>, <<" ">>, <<" ", "A", " ">> }

\* The fixed category list of the <select>, cut to one item; "" is the
\* "Select a category" option.
categories == { "Music" }

CategoryInputs == categories \cup { "" }

DescriptionInputs == { "", "d" }

NoUser == "none"

Users == { "u1" }

(***************************************************************************)
(* Remote collections at page load                                         *)
(***************************************************************************)
\* skills(id, name): two items whose names differ in case only.
SkillsTable == << [id |-> 1, name |-> <<"a">>], [id |-> 2, name |-> <<"A">>] >>

\* waiting_list_entries the page can find when it opens.
InitialEntries ==
    { <<>>,
      << [id |-> 1, desired_skill |-> <<"A">>],
         [id |-> 2, desired_skill |-> <<"b">>] >> }

\* The ids of those entries; the store assigns later ids to new entries.
InitialIds == UNION { { es[i].id : i \in 1..Len(es) } : es \in InitialEntries }

VARIABLES
    user,                 \* useAuth().user: NoUser or a user id
    waitingSkills,        \* useState<WaitingListEntry[]>([])
    isLoading,            \* useState(false)
    availableSkills,      \* useState<SkillItem[]>([])
    newSkill,             \* useState('')
    skillName,            \* useState('')
    category,             \* useState('')
    description,          \* useState('')
    waiting_list_entries, \* remote collection
    user_skills,          \* remote collection
    nextId,               \* next store-assigned entry id
    pcWaiting,            \* mount-time fetchWaitingSkills: idle / await / done
    pcCatalog,            \* mount-time fetchAvailableSkills: idle / await / done
    inflight,             \* handler invocations that have not returned yet
    calls,                \* remote calls, with their outcome: those still
                          \* pending and those issued since the latest
                          \* handler invocation began
    toasts,               \* notifications shown since the latest handler
                          \* invocation began
    nInv,                 \* number of handler invocations so far
    invoked               \* the handler invoked last ("" before the first)

vars == << user, waitingSkills, isLoading, availableSkills, newSkill, skillName,
           category, description, waiting_list_entries, user_skills, nextId,
           pcWaiting, pcCatalog, inflight, calls, toasts, nInv, invoked >>

formFields == << newSkill, skillName, category, description >>

store == << waiting_list_entries, user_skills, nextId >>

(***************************************************************************)
(* Helpers on sequences                                                    *)
(***************************************************************************)
Range(s) == { s[i] : i \in 1..Len(s) }

RECURSIVE Filter(_, _)
\* Array.prototype.filter with the predicate (ws) => ws.id !== id
Filter(s, id) ==
    IF s = <<>> THEN <<>>
    ELSE IF Head(s).id # id THEN <<Head(s)>> \o Filter(Tail(s), id)
    ELSE Filter(Tail(s), id)

\* The arguments of a remote call: an entry id, a skill name, a skill id, a
\* category; 0, <<>> and "" where the call has no such argument.
Arg(entry, name, skill, cat) ==
    [entry |-> entry, name |-> name, skill |-> skill, category |-> cat]

NoArg == Arg(0, <<>>, 0, "")

\* A remote call record; hid = 0 is the mount effect.
Call(hid, kind, arg) == [hid |-> hid, kind |-> kind, arg |-> arg, status |-> "pending"]

\* Index of the pending call of invocation hid of the given kind.
PendingIdx(hid, kind) ==
    { i \in 1..Len(calls) :
        calls[i].hid = hid /\ calls[i].kind = kind /\ calls[i].status = "pending" }

Settle(i, status) == [calls EXCEPT ![i].status = status]

\* What is kept of the call log when a handler is invoked: the calls that
\* have not been answered yet.
Outstanding == SelectSeq(calls, LAMBDA c : c.status = "pending")

Toast(hid, title, text) == [hid |-> hid, title |-> title, text |-> text]

Init ==
    /\ user \in Users \cup { NoUser }
    /\ waitingSkills = <<>>
    /\ isLoading = FALSE
    /\ availableSkills = <<>>
    /\ newSkill = <<>>
    /\ skillName = <<>>
    /\ category = ""
    /\ description = ""
    /\ waiting_list_entries \in InitialEntries
    /\ user_skills = <<>>
    /\ nextId = Cardinality(InitialIds) + 1
    /\ pcWaiting = "idle"
    /\ pcCatalog = "idle"
    /\ inflight = {}
    /\ calls = <<>>
    /\ toasts = <<>>
    /\ nInv = 0
    /\ invoked = ""


(***************************************************************************)
(* The remote client API (@/lib/api/waitingList) and the store behind it   *)
(***************************************************************************)
\* fetchWaitingListEntries(): the entries the store holds.
fetchWaitingListEntries == waiting_list_entries

\* addToWaitingList(email, skillName, category, userId) when it succeeds:
\* one new entry with a store-assigned id.
addToWaitingList(entries, id, name) ==
    Append(entries, [id |-> id, desired_skill |-> name])

\* removeFromWaitingList(entryId) when it succeeds.
removeFromWaitingList(entries, id) == Filter(entries, id)

(***************************************************************************)
(* Scheduling                                                              *)
(***************************************************************************)
\* `await fetchWaitingSkills()` resumes its caller in a microtask: between
\* the return of fetchWaitingSkills and the rest of the handler no event
\* (click, keystroke, network response) is dispatched.
NoContinuationPending == \A h \in inflight : h.pc # "resume"

Mounted == pcWaiting # "idle"

\* Mutant: the buttons are never disabled.
ButtonAlwaysEnabled == TRUE

\* disabled={isLoading} on the submit button and on every teach button.
ButtonEnabled == ~isLoading

CanInvoke == Mounted /\ NoContinuationPending /\ nInv < MaxOps

Update(h, g) == (inflight \ {h}) \cup {g}

(***************************************************************************)
(* Mount effect and the two loads                                          *)
(***************************************************************************)
\* useEffect(() => { fetchWaitingSkills(); fetchAvailableSkills(); }, [])
Mount ==
    /\ pcWaiting = "idle"
    /\ isLoading' = TRUE
    /\ calls' = calls \o << Call(0, "fetchWaitingListEntries", NoArg),
                            Call(0, "selectSkills", NoArg) >>
    /\ pcWaiting' = "await"
    /\ pcCatalog' = "await"
    /\ UNCHANGED << user, waitingSkills, availableSkills, formFields, store,
                    inflight, toasts, nInv, invoked >>

\* The flag as fetchWaitingSkills leaves it in its finally block.
LoadingAfterFetch == FALSE

\* fetchWaitingSkills of the mount effect, fetch resolved.
MountFetchOk ==
    /\ pcWaiting = "await"
    /\ NoContinuationPending
    /\ \E i \in PendingIdx(0, "fetchWaitingListEntries") :
          calls' = Settle(i, "ok")
    /\ waitingSkills' = fetchWaitingListEntries
    /\ isLoading' = LoadingAfterFetch
    /\ pcWaiting' = "done"
    /\ UNCHANGED << user, availableSkills, formFields, store, pcCatalog,
                    inflight, toasts, nInv, invoked >>

\* fetchWaitingSkills of the mount effect, fetch rejected.
MountFetchFail ==
    /\ pcWaiting = "await"
    /\ NoContinuationPending
    /\ \E i \in PendingIdx(0, "fetchWaitingListEntries") :
          calls' = Settle(i, "failed")
    /\ toasts' = Append(toasts, Toast(0, "Error", "Failed to load waiting skills"))
    /\ isLoading' = LoadingAfterFetch
    /\ pcWaiting' = "done"
    /\ UNCHANGED << user, waitingSkills, availableSkills, formFields, store,
                    pcCatalog, inflight, nInv, invoked >>

\* fetchAvailableSkills, select resolved without error.
CatalogOk ==
    /\ pcCatalog = "await"
    /\ NoContinuationPending
    /\ \E i \in PendingIdx(0, "selectSkills") : calls' = Settle(i, "ok")
    /\ availableSkills' = SkillsTable
    /\ pcCatalog' = "done"
    /\ UNCHANGED << user, waitingSkills, isLoading, formFields, store,
                    pcWaiting, inflight, toasts, nInv, invoked >>

\* fetchAvailableSkills, select returned an error: logged, nothing shown.
CatalogFail ==
    /\ pcCatalog = "await"
    /\ NoContinuationPending
    /\ \E i \in PendingIdx(0, "selectSkills") : calls' = Settle(i, "failed")
    /\ pcCatalog' = "done"
    /\ UNCHANGED << user, waitingSkills, isLoading, availableSkills, formFields,
                    store, pcWaiting, inflight, toasts, nInv, invoked >>

(***************************************************************************)
(* Form input                                                              *)
(***************************************************************************)
\* onChange of the "Skill Name" input.
SetSkillName ==
    /\ Mounted /\ NoContinuationPending
    /\ \E v \in NameInputs : v # skillName /\ skillName' = v
    /\ UNCHANGED << user, waitingSkills, isLoading, availableSkills, newSkill,
                    category, description, store, pcWaiting, pcCatalog,
                    inflight, calls, toasts, nInv, invoked >>

\* onChange of the category <select>.
SetCategory ==
    /\ Mounted /\ NoContinuationPending
    /\ \E v \in CategoryInputs : v # category /\ category' = v
    /\ UNCHANGED << user, waitingSkills, isLoading, availableSkills, newSkill,
                    skillName, description, store, pcWaiting, pcCatalog,
                    inflight, calls, toasts, nInv, invoked >>

\* onChange of the description <Textarea>.
SetDescription ==
    /\ Mounted /\ NoContinuationPending
    /\ \E v \in DescriptionInputs : v # description /\ description' = v
    /\ UNCHANGED << user, waitingSkills, isLoading, availableSkills, newSkill,
                    skillName, category, store, pcWaiting, pcCatalog,
                    inflight, calls, toasts, nInv, invoked >>

\* setNewSkill: the setter of the quick-add field.  No input of the rendered
\* page is bound to it; it is driven here so that handleAddToWaitingList has
\* the inputs its code distinguishes.
SetNewSkill ==
    /\ Mounted /\ NoContinuationPending
    /\ \E v \in NameInputs : v # newSkill /\ newSkill' = v
    /\ UNCHANGED << user, waitingSkills, isLoading, availableSkills, skillName,
                    category, description, store, pcWaiting, pcCatalog,
                    inflight, calls, toasts, nInv, invoked >>


(***************************************************************************)
(* An invocation of a handler that went past its guards: its position and  *)
(* the values its closure holds.  pre (the ids the cache held at the       *)
(* call) and preAssoc (the number of user_skills records then) are         *)
(* history, for the properties below.                                      *)
(***************************************************************************)
Handler(hid, op, pc, entry, name, skill) ==
    [hid |-> hid, op |-> op, pc |-> pc, entry |-> entry, name |-> name,
     skill |-> skill, pre |-> { e.id : e \in Range(waitingSkills) },
     preAssoc |-> Len(user_skills)]

SubmitOps == { "handleAddSkill", "handleAddToWaitingList" }

(***************************************************************************)
(* Submit: handleAddToWaitingList and handleAddSkill                       *)
(***************************************************************************)
\* if (!user || !newSkill.trim()) return;  -- negated
QuickAddValid == user # NoUser /\ trim(newSkill) # <<>>

\* Mutant: the skill name is tested without trim().
AddSkillValid_NoTrim == skillName # <<>> /\ category # ""

\* if (!skillName.trim() || !category) ... return;  -- negated
AddSkillValid == trim(skillName) # <<>> /\ category # ""

\* handleAddToWaitingList up to its first await.  No control of the rendered
\* page calls it; it is started here as the other two handlers are, from a
\* control that is disabled while isLoading.
handleAddToWaitingList ==
    /\ CanInvoke /\ ButtonEnabled
    /\ nInv' = nInv + 1
    /\ invoked' = "handleAddToWaitingList"
    /\ IF QuickAddValid
       THEN /\ isLoading' = TRUE
            /\ calls' = Append(Outstanding, Call(nInv + 1, "addToWaitingList",
                                                 Arg(0, trim(newSkill), 0, "")))
            /\ inflight' = inflight \cup
                  { Handler(nInv + 1, "handleAddToWaitingList", "await_add",
                            0, trim(newSkill), 0) }
       ELSE /\ calls' = Outstanding
            /\ UNCHANGED << isLoading, inflight >>
    /\ toasts' = <<>>
    /\ UNCHANGED << user, waitingSkills, availableSkills, formFields, store,
                    pcWaiting, pcCatalog >>

\* handleAddSkill up to its first await.  (The `required` attributes of the
\* inputs are browser-side checks; the handler is entered with any values.)
handleAddSkill ==
    /\ CanInvoke /\ ButtonEnabled
    /\ nInv' = nInv + 1
    /\ invoked' = "handleAddSkill"
    /\ IF user = NoUser
       THEN /\ toasts' = << Toast(nInv + 1, "Error",
                   "Please sign in to add a skill to the waiting list") >>
            /\ calls' = Outstanding
            /\ UNCHANGED << isLoading, inflight >>
       ELSE IF ~AddSkillValid
       THEN /\ toasts' = << Toast(nInv + 1, "Error",
                   "Please fill in all required fields") >>
            /\ calls' = Outstanding
            /\ UNCHANGED << isLoading, inflight >>
       ELSE /\ isLoading' = TRUE
            /\ calls' = Append(Outstanding, Call(nInv + 1, "addToWaitingList",
                                                 Arg(0, trim(skillName), 0, category)))
            /\ inflight' = inflight \cup
                  { Handler(nInv + 1, "handleAddSkill", "await_add",
                            0, trim(skillName), 0) }
            /\ toasts' = <<>>
    /\ UNCHANGED << user, waitingSkills, availableSkills, formFields, store,
                    pcWaiting, pcCatalog >>

\* addToWaitingList rejected: catch, then finally.
AddRejected(h) ==
    /\ h.op \in SubmitOps /\ h.pc = "await_add"
    /\ NoContinuationPending
    /\ \E i \in PendingIdx(h.hid, "addToWaitingList") : calls' = Settle(i, "failed")
    /\ toasts' = Append(toasts, Toast(h.hid, "Error",
                                      "Failed to add skill to waiting list"))
    /\ isLoading' = FALSE
    /\ inflight' = inflight \ {h}
    /\ UNCHANGED << user, waitingSkills, availableSkills, formFields, store,
                    pcWaiting, pcCatalog, nInv, invoked >>

\* addToWaitingList resolved with success = false: the if is skipped, then
\* finally.
AddUnsuccessful(h) ==
    /\ h.op \in SubmitOps /\ h.pc = "await_add"
    /\ NoContinuationPending
    /\ \E i \in PendingIdx(h.hid, "addToWaitingList") :
          calls' = Settle(i, "unsuccessful")
    /\ isLoading' = FALSE
    /\ inflight' = inflight \ {h}
    /\ UNCHANGED << user, waitingSkills, availableSkills, formFields, store,
                    pcWaiting, pcCatalog, toasts, nInv, invoked >>

\* addToWaitingList resolved with success = true: the handler calls
\* fetchWaitingSkills, which runs to its await.
AddSucceeded(h) ==
    /\ h.op \in SubmitOps /\ h.pc = "await_add"
    /\ NoContinuationPending
    /\ \E i \in PendingIdx(h.hid, "addToWaitingList") :
          calls' = Append(Settle(i, "ok"),
                          Call(h.hid, "fetchWaitingListEntries", NoArg))
    /\ waiting_list_entries' = addToWaitingList(waiting_list_entries, nextId, h.name)
    /\ nextId' = nextId + 1
    /\ isLoading' = TRUE
    /\ inflight' = Update(h, [h EXCEPT !.pc = "await_fetch"])
    /\ UNCHANGED << user, waitingSkills, availableSkills, formFields,
                    user_skills, pcWaiting, pcCatalog, toasts, nInv, invoked >>

\* Mutant: the re-fetched data is never put into the cache.
RefetchOk_KeepsCache(h) ==
    /\ h.op \in SubmitOps /\ h.pc = "await_fetch"
    /\ NoContinuationPending
    /\ \E i \in PendingIdx(h.hid, "fetchWaitingListEntries") :
          calls' = Settle(i, "ok")
    /\ isLoading' = LoadingAfterFetch
    /\ inflight' = Update(h, [h EXCEPT !.pc = "resume"])
    /\ UNCHANGED << user, waitingSkills, availableSkills, formFields, store,
                    pcWaiting, pcCatalog, toasts, nInv, invoked >>

\* The nested fetchWaitingSkills: fetch resolved, setWaitingSkills(data),
\* finally; its caller is left to resume.
RefetchOk(h) ==
    /\ h.op \in SubmitOps /\ h.pc = "await_fetch"
    /\ NoContinuationPending
    /\ \E i \in PendingIdx(h.hid, "fetchWaitingListEntries") :
          calls' = Settle(i, "ok")
    /\ waitingSkills' = fetchWaitingListEntries
    /\ isLoading' = LoadingAfterFetch
    /\ inflight' = Update(h, [h EXCEPT !.pc = "resume"])
    /\ UNCHANGED << user, availableSkills, formFields, store, pcWaiting,
                    pcCatalog, toasts, nInv, invoked >>

\* The nested fetchWaitingSkills: fetch rejected, caught inside it.
RefetchFail(h) ==
    /\ h.op \in SubmitOps /\ h.pc = "await_fetch"
    /\ NoContinuationPending
    /\ \E i \in PendingIdx(h.hid, "fetchWaitingListEntries") :
          calls' = Settle(i, "failed")
    /\ toasts' = Append(toasts, Toast(h.hid, "Error", "Failed to load waiting skills"))
    /\ isLoading' = LoadingAfterFetch
    /\ inflight' = Update(h, [h EXCEPT !.pc = "resume"])
    /\ UNCHANGED << user, waitingSkills, availableSkills, formFields, store,
                    pcWaiting, pcCatalog, nInv, invoked >>

\* The rest of the handler after `await fetchWaitingSkills()`: reset of the
\* fields it used, the success toast, finally.
Resume(h) ==
    /\ h.op \in SubmitOps /\ h.pc = "resume"
    /\ IF h.op = "handleAddToWaitingList"
       THEN /\ newSkill' = <<>>
            /\ UNCHANGED << skillName, category, description >>
       ELSE /\ skillName' = <<>>
            /\ category' = ""
            /\ description' = ""
            /\ UNCHANGED newSkill
    /\ toasts' = Append(toasts, Toast(h.hid, "Success", "Skill added to waiting list"))
    /\ isLoading' = FALSE
    /\ inflight' = inflight \ {h}
    /\ UNCHANGED << user, waitingSkills, availableSkills, store, pcWaiting,
                    pcCatalog, calls, nInv, invoked >>


(***************************************************************************)
(* Offer to teach: handleTeachSkill                                        *)
(***************************************************************************)
NoSkill == [id |-> 0, name |-> <<>>]

\* availableSkills.find((skill) =>
\*     skill.name.toLowerCase() === waitingSkill.desired_skill.toLowerCase())
find(skills, desired) ==
    LET hits == { i \in 1..Len(skills) :
                    toLowerCase(skills[i].name) = toLowerCase(desired) }
    IN  IF hits = {} THEN NoSkill
        ELSE skills[CHOOSE i \in hits : \A j \in hits : i <= j]

\* Mutant: the insert is not awaited, the removal is called at once.
handleTeachSkill_NoAwait(ws) ==
    /\ CanInvoke /\ ButtonEnabled
    /\ nInv' = nInv + 1
    /\ invoked' = "handleTeachSkill"
    /\ IF user = NoUser
       THEN /\ calls' = Outstanding
            /\ UNCHANGED << isLoading, inflight >>
       ELSE LET skillItem == find(availableSkills, ws.desired_skill) IN
            /\ isLoading' = TRUE
            /\ calls' = IF skillItem # NoSkill
                        THEN Outstanding \o
                             << Call(nInv + 1, "insertUserSkill",
                                     Arg(ws.id, ws.desired_skill, skillItem.id, "")),
                                Call(nInv + 1, "removeFromWaitingList",
                                     Arg(ws.id, ws.desired_skill, 0, "")) >>
                        ELSE Append(Outstanding,
                                    Call(nInv + 1, "removeFromWaitingList",
                                         Arg(ws.id, ws.desired_skill, 0, "")))
            /\ inflight' = inflight \cup
                  { Handler(nInv + 1, "handleTeachSkill", "await_remove",
                            ws.id, ws.desired_skill, skillItem.id) }
    /\ toasts' = <<>>
    /\ UNCHANGED << user, waitingSkills, availableSkills, formFields, store,
                    pcWaiting, pcCatalog >>

\* handleTeachSkill(ws) up to its first await: the insert when a skill item
\* was found, the removal otherwise.
handleTeachSkill(ws) ==
    /\ CanInvoke /\ ButtonEnabled
    /\ nInv' = nInv + 1
    /\ invoked' = "handleTeachSkill"
    /\ IF user = NoUser
       THEN /\ calls' = Outstanding
            /\ UNCHANGED << isLoading, inflight >>
       ELSE LET skillItem == find(availableSkills, ws.desired_skill) IN
            /\ isLoading' = TRUE
            /\ IF skillItem # NoSkill
               THEN /\ calls' = Append(Outstanding, Call(nInv + 1, "insertUserSkill",
                                  Arg(ws.id, ws.desired_skill, skillItem.id, "")))
                    /\ inflight' = inflight \cup
                          { Handler(nInv + 1, "handleTeachSkill", "await_insert",
                                    ws.id, ws.desired_skill, skillItem.id) }
               ELSE /\ calls' = Append(Outstanding, Call(nInv + 1, "removeFromWaitingList",
                                  Arg(ws.id, ws.desired_skill, 0, "")))
                    /\ inflight' = inflight \cup
                          { Handler(nInv + 1, "handleTeachSkill", "await_remove",
                                    ws.id, ws.desired_skill, 0) }
    /\ toasts' = <<>>
    /\ UNCHANGED << user, waitingSkills, availableSkills, formFields, store,
                    pcWaiting, pcCatalog >>

\* Mutant: no finally block, the flag is not cleared on failure.
TeachFailed_NoFinally(h) ==
    /\ toasts' = Append(toasts, Toast(h.hid, "Error",
                                      "Could not offer this skill. Please try again."))
    /\ UNCHANGED isLoading
    /\ inflight' = inflight \ {h}

\* catch and finally of handleTeachSkill.
TeachFailed(h) ==
    /\ toasts' = Append(toasts, Toast(h.hid, "Error",
                                      "Could not offer this skill. Please try again."))
    /\ isLoading' = FALSE
    /\ inflight' = inflight \ {h}

\* The user_skills insert resolved without error: removeFromWaitingList is
\* called next.
InsertOk(h) ==
    /\ h.op = "handleTeachSkill" /\ h.pc = "await_insert"
    /\ NoContinuationPending
    /\ \E i \in PendingIdx(h.hid, "insertUserSkill") :
          calls' = Append(Settle(i, "ok"),
                          Call(h.hid, "removeFromWaitingList",
                               Arg(h.entry, h.name, 0, "")))
    /\ user_skills' = Append(user_skills,
                             [user_id |-> user, skill_id |-> h.skill, type |-> "teach"])
    /\ inflight' = Update(h, [h EXCEPT !.pc = "await_remove"])
    /\ UNCHANGED << user, waitingSkills, isLoading, availableSkills, formFields,
                    waiting_list_entries, nextId, pcWaiting, pcCatalog, toasts,
                    nInv, invoked >>

\* Mutant: insertError is not tested, the removal is called all the same.
InsertFail_Ignored(h) ==
    /\ h.op = "handleTeachSkill" /\ h.pc = "await_insert"
    /\ NoContinuationPending
    /\ \E i \in PendingIdx(h.hid, "insertUserSkill") :
          calls' = Append(Settle(i, "failed"),
                          Call(h.hid, "removeFromWaitingList",
                               Arg(h.entry, h.name, 0, "")))
    /\ inflight' = Update(h, [h EXCEPT !.pc = "await_remove"])
    /\ UNCHANGED << user, waitingSkills, isLoading, availableSkills, formFields,
                    store, pcWaiting, pcCatalog, toasts, nInv, invoked >>

\* The user_skills insert returned an error: throw insertError.
InsertFail(h) ==
    /\ h.op = "handleTeachSkill" /\ h.pc = "await_insert"
    /\ NoContinuationPending
    /\ \E i \in PendingIdx(h.hid, "insertUserSkill") : calls' = Settle(i, "failed")
    /\ TeachFailed(h)
    /\ UNCHANGED << user, waitingSkills, availableSkills, formFields, store,
                    pcWaiting, pcCatalog, nInv, invoked >>

\* Mutant: the cache is not updated after the removal.
RemoveOk_KeepsCache(h) ==
    /\ h.op = "handleTeachSkill" /\ h.pc = "await_remove"
    /\ NoContinuationPending
    /\ \E i \in PendingIdx(h.hid, "removeFromWaitingList") : calls' = Settle(i, "ok")
    /\ waiting_list_entries' = removeFromWaitingList(waiting_list_entries, h.entry)
    /\ toasts' = Append(toasts, Toast(h.hid, "Success", "You've offered to teach"))
    /\ isLoading' = FALSE
    /\ inflight' = inflight \ {h}
    /\ UNCHANGED << user, waitingSkills, availableSkills, formFields, user_skills,
                    nextId, pcWaiting, pcCatalog, nInv, invoked >>

\* Mutant: the cache is filtered by desired_skill, not by id.
RemoveOk_ByName(h) ==
    /\ h.op = "handleTeachSkill" /\ h.pc = "await_remove"
    /\ NoContinuationPending
    /\ \E i \in PendingIdx(h.hid, "removeFromWaitingList") : calls' = Settle(i, "ok")
    /\ waiting_list_entries' = removeFromWaitingList(waiting_list_entries, h.entry)
    /\ waitingSkills' = SelectSeq(waitingSkills, LAMBDA e : e.desired_skill # h.name)
    /\ toasts' = Append(toasts, Toast(h.hid, "Success", "You've offered to teach"))
    /\ isLoading' = FALSE
    /\ inflight' = inflight \ {h}
    /\ UNCHANGED << user, availableSkills, formFields, user_skills, nextId,
                    pcWaiting, pcCatalog, nInv, invoked >>

\* removeFromWaitingList resolved: the entry is filtered out of the cache,
\* success toast, finally.
RemoveOk(h) ==
    /\ h.op = "handleTeachSkill" /\ h.pc = "await_remove"
    /\ NoContinuationPending
    /\ \E i \in PendingIdx(h.hid, "removeFromWaitingList") : calls' = Settle(i, "ok")
    /\ waiting_list_entries' = removeFromWaitingList(waiting_list_entries, h.entry)
    /\ waitingSkills' = Filter(waitingSkills, h.entry)
    /\ toasts' = Append(toasts, Toast(h.hid, "Success", "You've offered to teach"))
    /\ isLoading' = FALSE
    /\ inflight' = inflight \ {h}
    /\ UNCHANGED << user, availableSkills, formFields, user_skills, nextId,
                    pcWaiting, pcCatalog, nInv, invoked >>

\* Mutant: the entry is dropped from the cache although the removal failed.
RemoveFail_Optimistic(h) ==
    /\ h.op = "handleTeachSkill" /\ h.pc = "await_remove"
    /\ NoContinuationPending
    /\ \E i \in PendingIdx(h.hid, "removeFromWaitingList") :
          calls' = Settle(i, "failed")
    /\ waitingSkills' = Filter(waitingSkills, h.entry)
    /\ TeachFailed(h)
    /\ UNCHANGED << user, availableSkills, formFields, store, pcWaiting,
                    pcCatalog, nInv, invoked >>

\* removeFromWaitingList rejected.
RemoveFail(h) ==
    /\ h.op = "handleTeachSkill" /\ h.pc = "await_remove"
    /\ NoContinuationPending
    /\ \E i \in PendingIdx(h.hid, "removeFromWaitingList") :
          calls' = Settle(i, "failed")
    /\ TeachFailed(h)
    /\ UNCHANGED << user, waitingSkills, availableSkills, formFields, store,
                    pcWaiting, pcCatalog, nInv, invoked >>

(***************************************************************************)
(* Specification                                                           *)
(***************************************************************************)
Next ==
    \/ Mount
    \/ MountFetchOk
    \/ MountFetchFail
    \/ CatalogOk
    \/ CatalogFail
    \/ SetSkillName
    \/ SetCategory
    \/ SetDescription
    \/ SetNewSkill
    \/ handleAddToWaitingList
    \/ handleAddSkill
    \/ \E ws \in Range(waitingSkills) : handleTeachSkill(ws)
    \/ \E h \in inflight : AddRejected(h)
    \/ \E h \in inflight : AddUnsuccessful(h)
    \/ \E h \in inflight : AddSucceeded(h)
    \/ \E h \in inflight : RefetchOk(h)
    \/ \E h \in inflight : RefetchFail(h)
    \/ \E h \in inflight : Resume(h)
    \/ \E h \in inflight : InsertOk(h)
    \/ \E h \in inflight : InsertFail(h)
    \/ \E h \in inflight : RemoveOk(h)
    \/ \E h \in inflight : RemoveFail(h)

Spec == Init /\ [][Next]_vars


\* Every remote call is answered, and a handler whose awaited promise has
\* settled is resumed.
Respond ==
    \/ MountFetchOk
    \/ MountFetchFail
    \/ CatalogOk
    \/ CatalogFail
    \/ \E h \in inflight :
          \/ AddRejected(h) \/ AddUnsuccessful(h) \/ AddSucceeded(h)
          \/ RefetchOk(h) \/ RefetchFail(h) \/ Resume(h)
          \/ InsertOk(h) \/ InsertFail(h) \/ RemoveOk(h) \/ RemoveFail(h)

FairSpec == Spec /\ WF_vars(Respond)

(***************************************************************************)
(* Vocabulary of the properties                                            *)
(***************************************************************************)
CacheIds == { e.id : e \in Range(waitingSkills) }

StoreIds == { e.id : e \in Range(waiting_list_entries) }

CallsOf(hid, kind) ==
    { i \in 1..Len(calls) : calls[i].hid = hid /\ calls[i].kind = kind }

ToastsOf(hid, title) ==
    { i \in 1..Len(toasts) : toasts[i].hid = hid /\ toasts[i].title = title }

\* The step in which invocation h returns.
Returns(h) == h \in inflight /\ \A g \in inflight' : g.hid # h.hid

\* Some item of the skill catalog has this name, ignoring case.
CatalogMatch(name) ==
    \E k \in 1..Len(SkillsTable) :
        toLowerCase(SkillsTable[k].name) = toLowerCase(name)

\* The items of the local copy availableSkills with this name, ignoring case.
LocalMatch(name) ==
    { k \in 1..Len(availableSkills) :
        toLowerCase(availableSkills[k].name) = toLowerCase(name) }

Count(entries, name) ==
    Cardinality({ i \in 1..Len(entries) : entries[i].desired_skill = name })

\* The outcome of the (single) call of this kind made by invocation hid.
Outcome(hid, kind) == { calls[i].status : i \in CallsOf(hid, kind) }

(***************************************************************************)
(* C1                                                                      *)
(***************************************************************************)
\* C1 as stated: when a submit handler (handleAddSkill or
\* handleAddToWaitingList) that went past its guards returns, the cache holds
\* an entry for its skill name that was not in the cache before the call,
\* whatever the remote calls answered.
C1_Original ==
    [][ \A h \in inflight :
          (h.op \in SubmitOps /\ Returns(h)) =>
             \E e \in Range(waitingSkills') :
                 e.desired_skill = h.name /\ e.id \notin h.pre ]_vars

\* C1 amended: when addToWaitingList answered success = true and the re-fetch
\* of fetchWaitingSkills resolved, the cache holds, as the handler returns, an
\* entry for the trimmed skill name that was not in it before the call; in
\* every other outcome the cache holds the entries it held before the call.
C1_Amended ==
    [][ \A h \in inflight :
          (h.op \in SubmitOps /\ Returns(h)) =>
             IF /\ Outcome(h.hid, "addToWaitingList")' = { "ok" }
                /\ Outcome(h.hid, "fetchWaitingListEntries")' = { "ok" }
             THEN \E e \in Range(waitingSkills') :
                     e.desired_skill = h.name /\ e.id \notin h.pre
             ELSE CacheIds' = h.pre ]_vars

\* A submission has returned after a successful add and re-fetch, and its
\* entry is in the cache.
C1_Witness ==
    /\ inflight = {}
    /\ \E i \in 1..Len(toasts) :
          /\ toasts[i].title = "Success"
          /\ toasts[i].text = "Skill added to waiting list"
          /\ Outcome(toasts[i].hid, "fetchWaitingListEntries") = { "ok" }
    /\ \E e \in Range(waitingSkills) :
          e.desired_skill = <<"A">> /\ e.id \notin InitialIds


(***************************************************************************)
(* C2                                                                      *)
(***************************************************************************)
\* What an invocation h of handleTeachSkill that found a skill item does:
\* one insert call, for the acting user and the item found; the removal is
\* called only after that insert has succeeded and added its one record
\* (user_id, skill_id, type = 'teach'), and is called for h's entry.
InsertThenRemove(h) ==
    LET ins == CallsOf(h.hid, "insertUserSkill")
        rem == CallsOf(h.hid, "removeFromWaitingList")
    IN  /\ Cardinality(ins) = 1
        /\ \A i \in ins :
              /\ calls[i].arg.skill # 0
              /\ \E k \in 1..Len(SkillsTable) :
                    /\ SkillsTable[k].id = calls[i].arg.skill
                    /\ toLowerCase(SkillsTable[k].name) = toLowerCase(h.name)
        /\ Cardinality(rem) <= 1
        /\ \A j \in rem :
              /\ calls[j].arg.entry = h.entry
              /\ \A i \in ins : i < j /\ calls[i].status = "ok"
        /\ IF rem = {}
           THEN Len(user_skills) = h.preAssoc
           ELSE /\ Len(user_skills) = h.preAssoc + 1
                /\ \A i \in ins :
                      user_skills[Len(user_skills)] =
                         [user_id |-> user, skill_id |-> calls[i].arg.skill,
                          type |-> "teach"]

\* What an invocation h of handleTeachSkill that found no skill item does: no
\* insert, the removal at once.
RemoveOnly(h) ==
    /\ CallsOf(h.hid, "insertUserSkill") = {}
    /\ Cardinality(CallsOf(h.hid, "removeFromWaitingList")) = 1
    /\ \A j \in CallsOf(h.hid, "removeFromWaitingList") :
          calls[j].arg.entry = h.entry
    /\ Len(user_skills) = h.preAssoc

\* C2 as stated: every teach-offer in flight on an entry whose desired_skill
\* equals, ignoring case, the name of an item of the skill catalog has issued
\* exactly one user_skills insert and calls removeFromWaitingList only after
\* it, whether or not availableSkills had been loaded when it started.
C2_Original ==
    \A h \in inflight :
        (h.op = "handleTeachSkill" /\ CatalogMatch(h.name)) => InsertThenRemove(h)

\* C2 amended: the match is made against the local copy availableSkills as it
\* is when the offer is made.  An offer on an entry matching an item of
\* availableSkills issues exactly one insert (acting user, a matching item,
\* 'teach') and calls removeFromWaitingList only after that insert succeeded;
\* an offer made while availableSkills holds no matching item (not loaded yet,
\* or its load failed) issues no insert and calls the removal at once.
C2_Amended ==
    /\ [](\A h \in inflight :
            h.op = "handleTeachSkill" =>
               IF h.skill # 0 THEN InsertThenRemove(h) ELSE RemoveOnly(h))
    /\ [][ \A g \in inflight' :
             (g.hid = nInv' /\ nInv' # nInv /\ g.op = "handleTeachSkill") =>
                IF LocalMatch(g.name) = {}
                THEN g.skill = 0
                ELSE g.skill \in { availableSkills[k].id : k \in LocalMatch(g.name) }
         ]_vars

\* A teach-offer that found a skill item has had its insert answered and is
\* waiting for the removal.
C2_Witness ==
    \E h \in inflight :
        /\ h.op = "handleTeachSkill" /\ h.pc = "await_remove" /\ h.skill # 0
        /\ Outcome(h.hid, "insertUserSkill") = { "ok" }
        /\ Outcome(h.hid, "removeFromWaitingList") = { "pending" }
        /\ Len(user_skills) = h.preAssoc + 1

(***************************************************************************)
(* C3                                                                      *)
(***************************************************************************)
\* C3 as stated: a teach-offer on an entry matching no catalog item has, when
\* it returns, issued no insert, called removeFromWaitingList for the entry's
\* id, and the entry is no longer in the cache.
C3_Original ==
    [][ \A h \in inflight :
          (h.op = "handleTeachSkill" /\ ~CatalogMatch(h.name) /\ Returns(h)) =>
             /\ CallsOf(h.hid, "insertUserSkill")' = {}
             /\ \E j \in CallsOf(h.hid, "removeFromWaitingList")' :
                   calls'[j].arg.entry = h.entry
             /\ h.entry \notin CacheIds' ]_vars

\* C3 amended: such a teach-offer issues no insert and calls
\* removeFromWaitingList for the entry's id; when that removal succeeds the
\* entry is removed from the cache and from no other place of it, and when
\* the removal fails the cache is left as it was, the entry still in it.
C3_Amended ==
    [][ \A h \in inflight :
          (h.op = "handleTeachSkill" /\ ~CatalogMatch(h.name) /\ Returns(h)) =>
             /\ CallsOf(h.hid, "insertUserSkill")' = {}
             /\ user_skills' = user_skills
             /\ \E j \in CallsOf(h.hid, "removeFromWaitingList")' :
                   calls'[j].arg.entry = h.entry
             /\ IF Outcome(h.hid, "removeFromWaitingList")' = { "ok" }
                THEN CacheIds' = CacheIds \ { h.entry }
                ELSE waitingSkills' = waitingSkills /\ h.entry \in CacheIds'
      ]_vars

\* A teach-offer on the entry "b", which no catalog item matches, has
\* returned after a successful removal.
C3_Witness ==
    /\ inflight = {}
    /\ invoked = "handleTeachSkill"
    /\ \E j \in 1..Len(calls) :
          /\ calls[j].kind = "removeFromWaitingList"
          /\ calls[j].status = "ok"
          /\ calls[j].arg.name = <<"b">>
          /\ calls[j].arg.entry \notin CacheIds
          /\ CallsOf(calls[j].hid, "insertUserSkill") = {}
    /\ pcCatalog = "done" /\ availableSkills = SkillsTable

(***************************************************************************)
(* C4                                                                      *)
(***************************************************************************)
\* C4: a teach-offer whose user_skills insert failed has called no
\* removeFromWaitingList; its entry is still in the remote store and in the
\* cache; it has shown an error notification and no success notification.
C4_InsertFailureAborts ==
    \A i \in 1..Len(calls) :
        (calls[i].kind = "insertUserSkill" /\ calls[i].status = "failed") =>
           /\ CallsOf(calls[i].hid, "removeFromWaitingList") = {}
           /\ calls[i].arg.entry \in StoreIds
           /\ calls[i].arg.entry \in CacheIds
           /\ ToastsOf(calls[i].hid, "Error") # {}
           /\ ToastsOf(calls[i].hid, "Success") = {}
           /\ \A h \in inflight : h.hid # calls[i].hid

\* A teach-offer has returned after its insert failed, its entry still listed.
C4_Witness ==
    \E i \in 1..Len(calls) :
        /\ calls[i].kind = "insertUserSkill" /\ calls[i].status = "failed"
        /\ calls[i].arg.entry \in CacheIds
        /\ ~isLoading

(***************************************************************************)
(* C5                                                                      *)
(***************************************************************************)
\* C5: when removeFromWaitingList failed after the insert of the same
\* teach-offer succeeded, the entry is still in the cache (and in the store),
\* an error notification and no success notification was shown, the inserted
\* user_skills record is still there, and the offer made no call other than
\* that insert and that removal.
C5_NoRollback ==
    \A j \in 1..Len(calls) :
        ( /\ calls[j].kind = "removeFromWaitingList"
          /\ calls[j].status = "failed"
          /\ Outcome(calls[j].hid, "insertUserSkill") = { "ok" } ) =>
           /\ calls[j].arg.entry \in CacheIds
           /\ calls[j].arg.entry \in StoreIds
           /\ ToastsOf(calls[j].hid, "Error") # {}
           /\ ToastsOf(calls[j].hid, "Success") = {}
           /\ \A i \in CallsOf(calls[j].hid, "insertUserSkill") :
                 [user_id |-> user, skill_id |-> calls[i].arg.skill,
                  type |-> "teach"] \in Range(user_skills)
           /\ \A k \in 1..Len(calls) :
                 calls[k].hid = calls[j].hid =>
                    calls[k].kind \in { "insertUserSkill", "removeFromWaitingList" }
           /\ Cardinality({ k \in 1..Len(calls) : calls[k].hid = calls[j].hid }) = 2

\* A teach-offer has returned after its insert succeeded and its removal
\* failed: the record is stored and the entry still listed.
C5_Witness ==
    \E j \in 1..Len(calls) :
        /\ calls[j].kind = "removeFromWaitingList"
        /\ calls[j].status = "failed"
        /\ Outcome(calls[j].hid, "insertUserSkill") = { "ok" }
        /\ calls[j].arg.entry \in CacheIds
        /\ user_skills # <<>>


(***************************************************************************)
(* C6                                                                      *)
(***************************************************************************)
\* The precondition of handler op fails in the current state: nobody is
\* signed in, or, for the full form, the trimmed skill name is empty or no
\* category is selected.
PreconditionFails(op) ==
    \/ user = NoUser
    \/ op = "handleAddSkill" /\ (trim(skillName) = <<>> \/ category = "")

\* C6: an invocation whose precondition fails issues no remote call and
\* changes neither the cache, nor the form fields, nor the loading flag, and
\* starts nothing; if it is an invocation of handleAddSkill it shows an error
\* notification.
C6_RejectedIsNoOp ==
    [][ (nInv' # nInv /\ PreconditionFails(invoked')) =>
           /\ \A i \in 1..Len(calls') :
                 calls'[i].hid # nInv' /\ calls'[i] \in Range(calls)
           /\ UNCHANGED << waitingSkills, formFields, isLoading, inflight, store >>
           /\ (invoked' = "handleAddSkill") =>
                 \E i \in 1..Len(toasts') :
                    toasts'[i].hid = nInv' /\ toasts'[i].title = "Error"
           /\ \A i \in 1..Len(toasts') : toasts'[i].title # "Success" ]_vars

\* A full-form submission by a signed-in user with a blank skill name and a
\* category selected has been turned down.
C6_Witness ==
    /\ invoked = "handleAddSkill"
    /\ user # NoUser
    /\ skillName = <<" ">> /\ category # ""
    /\ inflight = {}
    /\ calls = <<>>
    /\ \E i \in 1..Len(toasts) :
          toasts[i].hid = nInv /\ toasts[i].text = "Please fill in all required fields"

(***************************************************************************)
(* C7                                                                      *)
(***************************************************************************)
\* First half of the round trip: a submission whose add and re-fetch
\* succeeded leaves an entry with desired_skill = S in the cache.
SubmitShowsEntry ==
    \A h \in inflight :
        ( /\ h.op \in SubmitOps /\ Returns(h)
          /\ Outcome(h.hid, "addToWaitingList")' = { "ok" }
          /\ Outcome(h.hid, "fetchWaitingListEntries")' = { "ok" } ) =>
           Count(waitingSkills', h.name) >= 1

\* A teach-offer returns successfully on an entry that a submission of this
\* session created, a catalog item having exactly its name.
TeachOnSubmitted(h) ==
    /\ h.op = "handleTeachSkill" /\ Returns(h)
    /\ h.entry \notin InitialIds
    /\ \E k \in 1..Len(SkillsTable) : SkillsTable[k].name = h.name
    /\ Outcome(h.hid, "removeFromWaitingList")' = { "ok" }

\* C7 as stated: the round trip leaves zero entries with desired_skill = S in
\* the cache, whatever the waiting list held before.
C7_Original ==
    [][ /\ SubmitShowsEntry
        /\ \A h \in inflight :
              TeachOnSubmitted(h) =>
                 /\ h.entry \notin CacheIds'
                 /\ Count(waitingSkills', h.name) = 0 ]_vars

\* C7 amended: the teach-offer removes the entry it was made on, and that
\* entry only: the number of cache entries with desired_skill = S drops by
\* exactly one, which is zero if and only if the cache held no other entry
\* with that name.
C7_Amended ==
    [][ /\ SubmitShowsEntry
        /\ \A h \in inflight :
              TeachOnSubmitted(h) =>
                 /\ h.entry \in CacheIds
                 /\ h.entry \notin CacheIds'
                 /\ Count(waitingSkills', h.name) = Count(waitingSkills, h.name) - 1
                 /\ CacheIds' = CacheIds \ { h.entry } ]_vars

\* The round trip has been made on a list holding no other "A": the
\* submitted entry is gone and no "A" is left.
C7_Witness ==
    /\ inflight = {}
    /\ \E j \in 1..Len(calls) :
          /\ calls[j].kind = "removeFromWaitingList"
          /\ calls[j].status = "ok"
          /\ calls[j].arg.entry \notin InitialIds
          /\ calls[j].arg.name = <<"A">>
          /\ Outcome(calls[j].hid, "insertUserSkill") = { "ok" }
    /\ Count(waitingSkills, <<"A">>) = 0

(***************************************************************************)
(* C8                                                                      *)
(***************************************************************************)
\* C8: a submit handler that returns after addToWaitingList rejected or
\* answered success = false has shown a failure notification and no success
\* notification, and its steps left the cache and the form fields alone.
C8_FailureIsNotified ==
    [][ \A h \in inflight :
          ( /\ h.op \in SubmitOps /\ Returns(h)
            /\ Outcome(h.hid, "addToWaitingList")' \subseteq
                  { "failed", "unsuccessful" } ) =>
             /\ ToastsOf(h.hid, "Error")' # {}
             /\ ToastsOf(h.hid, "Success")' = {}
             /\ UNCHANGED << waitingSkills, formFields >> ]_vars

(***************************************************************************)
(* C9                                                                      *)
(***************************************************************************)
\* C9 as stated: at most one handler is in flight, and isLoading is true in
\* every state in which one is.
C9_Original ==
    /\ Cardinality(inflight) <= 1
    /\ inflight # {} => isLoading

\* C9 amended: at most one handler is in flight, never together with the
\* mount-time fetchWaitingSkills, and isLoading is true whenever the handler
\* waits for a remote call, that is in every state in which an event can be
\* dispatched; once the nested fetchWaitingSkills of a submission has
\* returned, isLoading is false while the handler runs its remaining
\* statements.
C9_Amended ==
    /\ Cardinality(inflight) <= 1
    /\ inflight # {} => pcWaiting = "done"
    /\ \A h \in inflight :
          IF h.pc = "resume"
          THEN ~isLoading /\ \A i \in 1..Len(calls) : calls[i].hid # h.hid
                                  \/ calls[i].status # "pending"
          ELSE isLoading /\ \E i \in 1..Len(calls) :
                               calls[i].hid = h.hid /\ calls[i].status = "pending"

\* A submission is waiting for its nested re-fetch, the flag set.
C9_Witness ==
    \E h \in inflight : h.pc = "await_fetch" /\ isLoading

(***************************************************************************)
(* C10                                                                     *)
(***************************************************************************)
NoCallPending == \A i \in 1..Len(calls) : calls[i].status # "pending"

\* C10: whenever every issued remote call has been answered isLoading is
\* false, and, every call being answered eventually, isLoading = TRUE leads
\* to isLoading = FALSE.
C10_LoadingClears ==
    /\ [](NoCallPending => ~isLoading)
    /\ isLoading ~> ~isLoading

\* A teach-offer has failed, every call is answered and the flag is down.
C10_Witness ==
    /\ NoCallPending
    /\ ~isLoading
    /\ inflight = {}
    /\ \E i \in 1..Len(toasts) :
          toasts[i].text = "Could not offer this skill. Please try again."

====
